---- MODULE Spec2Model ----
(***************************************************************************)
(* Model of dota_data.py: the rate limited puller, the stats extractor     *)
(* desired_fields and the reconciliation run update_data_for_season with   *)
(* its two persisted files (the id pairing cache and the csv table).        *)
(***************************************************************************)
EXTENDS Integers, Sequences, FiniteSets, TLC

VARIABLES
    \* ---- durable state and upstream (update_data_for_season) ----
    cacheFile,           \* ld2l_match_id_mapping_s{season}.json
    csvFile,             \* the csv table file
    odOf,                \* ld2l id -> OpenDota id posted on the ld2l match page
    \* ---- locals of the run in progress ----
    pc,
    cached_id_pairings,
    known_match_data,
    known_data_ids,
    cached_but_no_data,  \* ids the backfill loop still has to visit
    currently_posted,
    new_ld2l_ids,        \* ids the new-match loop still has to visit
    new_pairings,
    \* ---- observations of the run (history) ----
    preCache,            \* cacheFile when the run started
    preCsv,              \* csvFile when the run started
    outcome,             \* how the last finished run ended: "none", "ok", "raised"
    failure,             \* the exception that ended the run, or "none"
    repeat,              \* the run before ended ok and saw the listing this one sees
    wrote,               \* files opened for writing by this run
    odRequests,          \* OpenDota ids requested by this run, in order
    ld2lRequests,        \* ld2l match pages requested by this run, in order
    printed,             \* messages printed by this run
    \* ---- RateLimitedPuller instances and the clock ----
    clock,
    prev_pull,
    lastIssue,           \* instant the last request of each puller was issued
    lastGap,             \* time between the last two issued requests
    lastCall,            \* puller and outcome of the last pull
    pulls,               \* calls of pull so far
    \* ---- desired_fields applied to one record ----
    match,
    row,
    \* ---- a second process running update_data_for_season on the same files ----
    other

runVars == <<cacheFile, csvFile, odOf, pc, cached_id_pairings,
             known_match_data, known_data_ids, cached_but_no_data,
             currently_posted, new_ld2l_ids, new_pairings, preCache, preCsv,
             outcome, failure, repeat, wrote, odRequests, ld2lRequests, printed>>
pullVars == <<clock, prev_pull, lastIssue, lastGap, lastCall, pulls>>
extractVars == <<match, row>>
vars == <<runVars, pullVars, extractVars, other>>

(***************************************************************************)
(* Bounds of the model.                                                    *)
(***************************************************************************)
MaxPlayers == 2      \* players in a record given to desired_fields
MaxStat == 1         \* largest value of one stat of one player
MaxClock == 31       \* the clock stops here
MaxLatency == 1      \* longest time a request takes
MaxPulls == 2        \* calls of pull
MaxInformal == 2     \* ld2l ids are 1..MaxInformal
MaxStats == 2        \* OpenDota ids are 0..MaxStats
MaxInt == 30         \* int() parses the decimal strings of 0..MaxInt

(***************************************************************************)
(* desired_fields                                                          *)
(***************************************************************************)
STATS == <<"kills", "deaths", "assists", "gold_per_min", "xp_per_min">>

Slots == {0, 127, 128, 255}

HEADER == <<"match_id",
            "radiant_team_id", "r_kills", "r_deaths", "r_assists", "r_xpm", "r_gpm",
            "dire_team_id", "d_kills", "d_deaths", "d_assists", "d_xpm", "d_gpm">>

\* slot 128 counted as radiant
team_of_late(player_slot) == IF player_slot > 128 THEN 1 ELSE 0

team_of(player_slot) == player_slot \div 128

add_player(sums, p) ==
    LET team == team_of(p.player_slot)
    IN  [sums EXCEPT ![team] = [i \in 1..5 |-> sums[team][i] + p[STATS[i]]]]

RECURSIVE sum_players(_, _)
sum_players(sums, players) ==
    IF players = <<>> THEN sums
    ELSE sum_players(add_player(sums, Head(players)), Tail(players))

team_sums(m) ==
    sum_players([t \in 0..1 |-> <<0, 0, 0, 0, 0>>], m.players)

desired_fields(m) ==
    LET ids == <<m.radiant_team_id, m.dire_team_id>>
        sums == team_sums(m)
    IN  <<m.match_id, ids[1]>> \o sums[0] \o <<ids[2]>> \o sums[1]

(***************************************************************************)
(* Records given to desired_fields.  A player's five stats are all zero,   *)
(* one stat alone with a value up to MaxStat, or five different values.    *)
(***************************************************************************)
StatVectors ==
    {<<0, 0, 0, 0, 0>>, <<1, 2, 3, 4, 5>>} \cup
    {[i \in 1..5 |-> IF i = s THEN v ELSE 0] : s \in 1..5, v \in 1..MaxStat}

player(slot, v) ==
    [player_slot |-> slot, kills |-> v[1], deaths |-> v[2], assists |-> v[3],
     gold_per_min |-> v[4], xp_per_min |-> v[5]]

Players == {player(slot, v) : slot \in Slots, v \in StatVectors}

PlayerLists == UNION {[1..n -> Players] : n \in 0..MaxPlayers}

MatchRecords ==
    {[match_id |-> 1, radiant_team_id |-> 10, dire_team_id |-> 20, players |-> ps] :
        ps \in PlayerLists}

(***************************************************************************)
(* RateLimitedPuller: the two instances update_data_for_season constructs. *)
(***************************************************************************)
LD2L_SECONDS == 15
OD_SECONDS == 1
MaxOversleep == 1    \* time.sleep may return this much late

Pullers == {"ld2l", "od"}

duration == [p \in Pullers |-> IF p = "ld2l" THEN LD2L_SECONDS ELSE OD_SECONDS]

NoCall == [puller |-> "none", ok |-> TRUE]

PullerInit ==
    /\ clock = 0
    /\ prev_pull = [p \in Pullers |-> 0]
    /\ lastIssue = [p \in Pullers |-> -1]
    /\ lastGap = [p \in Pullers |-> -1]
    /\ lastCall = NoCall
    /\ pulls = 0

\* time the sleep of pull lasts when asked at `now`
sleep_time(p, now) ==
    LET time_since == now - prev_pull[p]
    IN  IF time_since < duration[p] THEN duration[p] - time_since ELSE 0

\* one last-call instant shared by every instance
prev_pull_after_shared(p, ok, returned) ==
    IF ok THEN [q \in Pullers |-> returned] ELSE prev_pull

\* prev_pull after a request that returned (ok) or raised (~ok) at `returned`
prev_pull_after(p, ok, returned) ==
    IF ok THEN [prev_pull EXCEPT ![p] = returned] ELSE prev_pull

Min(a, b) == IF a < b THEN a ELSE b

\* one call of pull: sleep, issue the request, wait for it to return or raise
Pull(p) ==
    \E over \in 0..MaxOversleep, latency \in 0..MaxLatency, ok \in BOOLEAN :
        LET now == clock
            issued == now + sleep_time(p, now) + (IF sleep_time(p, now) > 0 THEN over ELSE 0)
            returned == issued + latency
        IN  /\ pulls < MaxPulls
            /\ pulls' = pulls + 1
            /\ returned <= MaxClock
            /\ clock' = returned
            /\ prev_pull' = prev_pull_after(p, ok, returned)
            /\ lastGap' = [lastGap EXCEPT ![p] =
                              IF lastIssue[p] < 0 THEN -1
                              ELSE Min(issued - lastIssue[p], duration[p])]
            /\ lastIssue' = [lastIssue EXCEPT ![p] = issued]
            /\ lastCall' = [puller |-> p, ok |-> ok]

\* time passes between two calls of pull
Tick ==
    /\ clock < MaxClock
    /\ clock' = clock + 1
    /\ UNCHANGED <<prev_pull, lastIssue, lastGap, lastCall, pulls>>

(***************************************************************************)
(* update_data_for_season: files, upstream and conversions.                *)
(***************************************************************************)
InformalIds == 1..MaxInformal
StatsIds == 0..MaxStats

NoFile == [exists |-> FALSE, content |-> <<>>]
File(c) == [exists |-> TRUE, content |-> c]

\* str(n) and int(s) for the non-negative integers the files hold
str(n) == ToString(n)
int(s) == CHOOSE n \in 0..MaxInt : ToString(n) = s

\* the record the OpenDota API returns for matches/{id}
StatsRecord(id) ==
    [match_id |-> id, radiant_team_id |-> 10 + id, dire_team_id |-> 20 + id,
     players |-> <<player(0, <<1, 2, 3, 4, 5>>), player(128, <<id, 0, 1, 0, 2>>)>>]

\* a row of known_match_data: a list of strings read by csv.reader, or a
\* tuple of numbers returned by desired_fields
from_csv(fields) == [text |-> fields, tuple |-> <<>>]
from_tuple(t) == [text |-> <<>>, tuple |-> t]

\* csv.writer.writerow: strings as they are, numbers through str
writerow(r) ==
    IF r.tuple = <<>> THEN r.text ELSE [i \in 1..Len(r.tuple) |-> str(r.tuple[i])]

\* json.load of the cache file, {} when it does not exist
load_pairings(file) == IF file.exists THEN file.content ELSE <<>>

\* one line too many skipped
load_rows_short(file) ==
    IF file.exists
    THEN [i \in 1..(Len(file.content) - 2) |-> [text |-> file.content[i + 2], tuple |-> <<>>]]
    ELSE <<>>

\* csv.reader of the table without its header line, [] when it does not exist
load_rows(file) ==
    IF file.exists
    THEN [i \in 1..(Len(file.content) - 1) |-> from_csv(file.content[i + 1])]
    ELSE <<>>

cached_ld2l_ids_of(pairings) == {int(pairings[i][1]) : i \in 1..Len(pairings)}
cached_od_ids_of(pairings) == {pairings[i][2] : i \in 1..Len(pairings)}
\* the ids read from the second column
known_data_ids_of_team(rows) == {int(rows[i].text[2]) : i \in 1..Len(rows)}

known_data_ids_of(rows) == {int(rows[i].text[1]) : i \in 1..Len(rows)}

\* every cached id pulled again, whether the table has it or not
missing_data_all(cached_od_ids, known_ids) == cached_od_ids \ {0}

\* no backfill at all
missing_data_none(cached_od_ids, known_ids) == {}

\* cached_od_ids - known_data_ids with 0 discarded
missing_data(cached_od_ids, known_ids) == (cached_od_ids \ known_ids) \ {0}

\* the difference taken the other way round
listing_consistent_reversed(cached_ld2l_ids, listing) == listing \ cached_ld2l_ids = {}

\* the assert on the listing
listing_consistent(cached_ld2l_ids, listing) == cached_ld2l_ids \ listing = {}

\* the test without the look into known_data_ids
needs_data_always(od_id, known_ids) == od_id # 0

\* the test without od_id != 0
needs_data_zero(od_id, known_ids) == od_id \notin known_ids

\* the test that decides whether a new match is pulled from OpenDota
needs_data(od_id, known_ids) == od_id # 0 /\ od_id \notin known_ids

\* the merge forgotten: only the loaded pairings are written
dump_pairings_old(cached, new) == cached

\* only the pairings of this run are written
dump_pairings_new(cached, new) ==
    [i \in 1..Len(new) |-> <<ToString(new[i][1]), new[i][2]>>]

\* json.dump(cached_id_pairings | new_pairings): the old entries in their
\* order, then the new ones, their integer keys written as strings
dump_pairings(cached, new) ==
    cached \o [i \in 1..Len(new) |-> <<str(new[i][1]), new[i][2]>>]

\* the rows without the header row
dump_rows_bare(rows) == [i \in 1..Len(rows) |-> writerow(rows[i])]

\* the header row and writerows(known_match_data)
dump_rows(rows) == <<HEADER>> \o [i \in 1..Len(rows) |-> writerow(rows[i])]

\* the exception caught and the loop going on
on_exception_caught(at) == at

\* where control goes when a step of the run raises: out of the function
on_exception(at) == "idle"

(***************************************************************************)
(* update_data_for_season: the run, one action per step that does I/O.     *)
(***************************************************************************)
RunInit ==
    /\ cacheFile = NoFile
    /\ csvFile = NoFile
    /\ odOf \in [InformalIds -> StatsIds]
    /\ pc = "idle"
    /\ cached_id_pairings = <<>>
    /\ known_match_data = <<>>
    /\ known_data_ids = {}
    /\ cached_but_no_data = {}
    /\ currently_posted = {}
    /\ new_ld2l_ids = {}
    /\ new_pairings = <<>>
    /\ preCache = NoFile
    /\ preCsv = NoFile
    /\ outcome = "none"
    /\ failure = "none"
    /\ repeat = FALSE
    /\ wrote = {}
    /\ odRequests = <<>>
    /\ ld2lRequests = <<>>
    /\ printed = {}

\* the locals are gone when the function returns or raises
DropLocals ==
    /\ cached_id_pairings' = <<>>
    /\ known_match_data' = <<>>
    /\ known_data_ids' = {}
    /\ cached_but_no_data' = {}
    /\ new_ld2l_ids' = {}
    /\ new_pairings' = <<>>

\* a step of the run raises `error`
Raise(error) ==
    /\ failure' = error
    /\ pc' = on_exception(pc)
    /\ outcome' = IF on_exception(pc) = "idle" THEN "raised" ELSE outcome
    /\ IF on_exception(pc) = "idle"
       THEN DropLocals
       ELSE UNCHANGED <<cached_id_pairings, known_match_data, known_data_ids,
                        cached_but_no_data, new_ld2l_ids, new_pairings>>

\* lines 100-126: load both files and compute what the backfill must pull
StartRun ==
    /\ pc = "idle"
    /\ LET pairings == load_pairings(cacheFile)
           rows == load_rows(csvFile)
           missing == missing_data(cached_od_ids_of(pairings), known_data_ids_of(rows))
       IN  /\ cached_id_pairings' = pairings
           /\ known_match_data' = rows
           /\ known_data_ids' = known_data_ids_of(rows)
           /\ cached_but_no_data' = missing
           /\ printed' = IF missing # {} THEN {"missing data"} ELSE {}
    /\ new_ld2l_ids' = {}
    /\ new_pairings' = <<>>
    /\ preCache' = cacheFile
    /\ preCsv' = csvFile
    /\ repeat' = FALSE
    /\ failure' = "none"
    /\ wrote' = {}
    /\ odRequests' = <<>>
    /\ ld2lRequests' = <<>>
    /\ pc' = "backfill"
    /\ UNCHANGED <<cacheFile, csvFile, odOf, currently_posted, outcome>>

\* lines 129-130: one turn of the backfill loop
Backfill(missing_id) ==
    /\ pc = "backfill"
    /\ missing_id \in cached_but_no_data
    /\ odRequests' = Append(odRequests, missing_id)
    /\ \E result \in {"ok", "fetch", "extract"} :
          IF result = "ok"
          THEN /\ known_match_data' =
                     Append(known_match_data,
                            from_tuple(desired_fields(StatsRecord(missing_id))))
               /\ cached_but_no_data' = cached_but_no_data \ {missing_id}
               /\ UNCHANGED <<pc, outcome, failure, cached_id_pairings, known_data_ids,
                              new_ld2l_ids, new_pairings>>
          ELSE Raise(result)
    /\ UNCHANGED <<cacheFile, csvFile, odOf, currently_posted, preCache, preCsv,
                   repeat, wrote, ld2lRequests, printed>>

\* lines 131-139 and 152-153: the orphan warning, the listing and the assert;
\* `listing` is the set of completed matches ld2l.gg shows at this moment
ListPosted ==
    /\ pc = "backfill"
    /\ cached_but_no_data = {}
    /\ ld2lRequests' = Append(ld2lRequests, [page |-> "season", id |-> 0])
    /\ LET cached_ld2l_ids == cached_ld2l_ids_of(cached_id_pairings)
           data_but_no_cache == known_data_ids \ cached_od_ids_of(cached_id_pairings)
           warned == printed \cup (IF data_but_no_cache # {} THEN {"data not in cache"} ELSE {})
       IN  \E result \in {"ok", "fetch", "scan"}, listing \in SUBSET InformalIds :
             IF result # "ok"
             THEN /\ listing = {}
                  /\ Raise(result)
                  /\ printed' = warned
                  /\ UNCHANGED <<currently_posted, repeat>>
             ELSE /\ currently_posted' = listing
                  /\ repeat' = (outcome = "ok" /\ currently_posted = listing)
                  /\ IF listing_consistent(cached_ld2l_ids, listing)
                     THEN /\ new_ld2l_ids' = listing \ cached_ld2l_ids
                          /\ pc' = IF listing \ cached_ld2l_ids = {} THEN "persist" ELSE "process"
                          /\ printed' = warned \cup
                                (IF listing \ cached_ld2l_ids = {} THEN {"no new matches"} ELSE {})
                          /\ UNCHANGED <<outcome, failure, cached_id_pairings,
                                         known_match_data, known_data_ids,
                                         cached_but_no_data, new_pairings>>
                     ELSE /\ Raise("assert")
                          /\ printed' = warned
    /\ UNCHANGED <<cacheFile, csvFile, odOf, preCache, preCsv, wrote, odRequests>>

\* lines 147-151: one turn of the new-match loop
ProcessNew(ld2l_id) ==
    /\ pc = "process"
    /\ ld2l_id \in new_ld2l_ids
    /\ ld2lRequests' = Append(ld2lRequests, [page |-> "match", id |-> ld2l_id])
    /\ LET od_id == odOf[ld2l_id]
           pull == needs_data(od_id, known_data_ids)
       IN  \E result \in {"ok", "fetch", "map", "fetch od", "extract"} :
             /\ result \in {"fetch od", "extract"} => pull
             /\ odRequests' = IF pull /\ result \notin {"fetch", "map"}
                              THEN Append(odRequests, od_id) ELSE odRequests
             /\ IF result = "ok"
                THEN /\ new_pairings' = Append(new_pairings, <<ld2l_id, od_id>>)
                     /\ known_match_data' =
                           IF pull
                           THEN Append(known_match_data,
                                       from_tuple(desired_fields(StatsRecord(od_id))))
                           ELSE known_match_data
                     /\ new_ld2l_ids' = new_ld2l_ids \ {ld2l_id}
                     /\ pc' = IF new_ld2l_ids \ {ld2l_id} = {} THEN "persist" ELSE "process"
                     /\ UNCHANGED <<outcome, failure, cached_id_pairings, known_data_ids,
                                    cached_but_no_data>>
                ELSE Raise(IF result = "fetch od" THEN "fetch" ELSE result)
    /\ UNCHANGED <<cacheFile, csvFile, odOf, currently_posted, preCache, preCsv,
                   repeat, wrote, printed>>

\* lines 156-157: write the pairing cache
WriteCache ==
    /\ pc = "persist"
    /\ cacheFile' = File(dump_pairings(cached_id_pairings, new_pairings))
    /\ wrote' = wrote \cup {"cache"}
    /\ pc' = "write csv"
    /\ UNCHANGED <<csvFile, odOf, cached_id_pairings, known_match_data,
                   known_data_ids, cached_but_no_data, currently_posted, new_ld2l_ids,
                   new_pairings, preCache, preCsv, outcome, failure, repeat,
                   odRequests, ld2lRequests, printed>>

\* lines 159-165: write the table; the function returns
WriteCsv ==
    /\ pc = "write csv"
    /\ csvFile' = File(dump_rows(known_match_data))
    /\ wrote' = wrote \cup {"csv"}
    /\ pc' = "idle"
    /\ outcome' = "ok"
    /\ DropLocals
    /\ UNCHANGED <<cacheFile, odOf, currently_posted, preCache, preCsv, failure,
                   repeat, odRequests, ld2lRequests, printed>>

\* the process is killed between the two writes of lines 156-165
Kill ==
    /\ pc = "write csv"
    /\ pc' = "idle"
    /\ outcome' = "raised"
    /\ failure' = "killed"
    /\ DropLocals
    /\ UNCHANGED <<cacheFile, csvFile, odOf, currently_posted, preCache, preCsv,
                   repeat, wrote, odRequests, ld2lRequests, printed>>

ExtractInit ==
    /\ match = [match_id |-> 0, radiant_team_id |-> 0, dire_team_id |-> 0, players |-> <<>>]
    /\ row = <<>>

\* the second process: not running, nothing loaded
OtherIdle(how) ==
    [pc |-> "idle", outcome |-> how, cached_id_pairings |-> <<>>,
     known_match_data |-> <<>>, new_pairings |-> <<>>]

OtherInit == other = OtherIdle("none")

Init == RunInit /\ PullerInit /\ ExtractInit /\ OtherInit

Next ==
    \/ StartRun /\ UNCHANGED <<pullVars, extractVars, other>>
    \/ (\E id \in StatsIds : Backfill(id)) /\ UNCHANGED <<pullVars, extractVars, other>>
    \/ ListPosted /\ UNCHANGED <<pullVars, extractVars, other>>
    \/ (\E id \in InformalIds : ProcessNew(id)) /\ UNCHANGED <<pullVars, extractVars, other>>
    \/ WriteCache /\ UNCHANGED <<pullVars, extractVars, other>>
    \/ WriteCsv /\ UNCHANGED <<pullVars, extractVars, other>>
    \/ Kill /\ UNCHANGED <<pullVars, extractVars, other>>

Spec == Init /\ [][Next]_vars

(***************************************************************************)
(* Runs that start from a table whose pairing cache was deleted: the table *)
(* an earlier run wrote for OpenDota match 1, and no cache file.           *)
(***************************************************************************)
EditedRunInit ==
    /\ cacheFile = NoFile
    /\ csvFile = File(dump_rows(<<from_tuple(desired_fields(StatsRecord(1)))>>))
    /\ odOf \in [InformalIds -> StatsIds]
    /\ pc = "idle"
    /\ cached_id_pairings = <<>>
    /\ known_match_data = <<>>
    /\ known_data_ids = {}
    /\ cached_but_no_data = {}
    /\ currently_posted = {}
    /\ new_ld2l_ids = {}
    /\ new_pairings = <<>>
    /\ preCache = cacheFile
    /\ preCsv = csvFile
    /\ outcome = "none"
    /\ failure = "none"
    /\ repeat = FALSE
    /\ wrote = {}
    /\ odRequests = <<>>
    /\ ld2lRequests = <<>>
    /\ printed = {}

EditedInit == EditedRunInit /\ PullerInit /\ ExtractInit /\ OtherInit

EditedSpec == EditedInit /\ [][Next]_vars

(***************************************************************************)
(* RateLimitedPuller alone: pulls on the two instances as time passes.     *)
(***************************************************************************)
(***************************************************************************)
(* Two processes running update_data_for_season on the same season and    *)
(* the same table path.  The first one is the run above, step by step; the *)
(* second one takes its load, its processing and its two writes as four    *)
(* steps that interleave with the steps of the first.                      *)
(***************************************************************************)
otherFrame == <<odOf, pc, cached_id_pairings, known_match_data, known_data_ids,
                cached_but_no_data, currently_posted, new_ld2l_ids, new_pairings,
                preCache, preCsv, outcome, failure, repeat, wrote, odRequests,
                ld2lRequests, printed>>

\* the orders in which a loop may go through the set S
Orderings(S) ==
    {s \in [1..Cardinality(S) -> S] : \A i, j \in 1..Cardinality(S) : i # j => s[i] # s[j]}

\* the load taken only while no other run is between its load and its writes
OtherLoad_locked ==
    /\ other.pc = "idle"
    /\ pc = "idle"
    /\ other' = [pc |-> "loaded", outcome |-> other.outcome,
                 cached_id_pairings |-> load_pairings(cacheFile),
                 known_match_data |-> load_rows(csvFile),
                 new_pairings |-> <<>>]
    /\ UNCHANGED <<cacheFile, csvFile>>

\* lines 107-122 in the second process: load both files
OtherLoad ==
    /\ other.pc = "idle"
    /\ other' = [pc |-> "loaded", outcome |-> other.outcome,
                 cached_id_pairings |-> load_pairings(cacheFile),
                 known_match_data |-> load_rows(csvFile),
                 new_pairings |-> <<>>]
    /\ UNCHANGED <<cacheFile, csvFile>>

\* lines 124-153 in the second process: the backfill loop, the listing, the
\* assert and the new-match loop; any request in them may fail
OtherProcess ==
    /\ other.pc = "loaded"
    /\ LET cached == other.cached_id_pairings
           known == known_data_ids_of(other.known_match_data)
           missing == missing_data(cached_od_ids_of(cached), known)
       IN  \E ok \in BOOLEAN, listing \in SUBSET InformalIds :
             IF ~ok \/ ~listing_consistent(cached_ld2l_ids_of(cached), listing)
             THEN /\ listing = {}
                  /\ other' = OtherIdle("raised")
             ELSE \E back \in Orderings(missing),
                     new \in Orderings(listing \ cached_ld2l_ids_of(cached)) :
                    LET pulled == SelectSeq(new, LAMBDA id : needs_data(odOf[id], known))
                    IN  other' =
                          [other EXCEPT
                             !.pc = "persist",
                             !.known_match_data =
                                 other.known_match_data
                                 \o [i \in 1..Len(back) |->
                                       from_tuple(desired_fields(StatsRecord(back[i])))]
                                 \o [i \in 1..Len(pulled) |->
                                       from_tuple(desired_fields(StatsRecord(odOf[pulled[i]])))],
                             !.new_pairings =
                                 [i \in 1..Len(new) |-> <<new[i], odOf[new[i]]>>]]
    /\ UNCHANGED <<cacheFile, csvFile>>

\* lines 156-157 in the second process
OtherWriteCache ==
    /\ other.pc = "persist"
    /\ cacheFile' = File(dump_pairings(other.cached_id_pairings, other.new_pairings))
    /\ other' = [other EXCEPT !.pc = "write csv"]
    /\ UNCHANGED csvFile

\* lines 159-165 in the second process; the function returns
OtherWriteCsv ==
    /\ other.pc = "write csv"
    /\ csvFile' = File(dump_rows(other.known_match_data))
    /\ other' = OtherIdle("ok")
    /\ UNCHANGED cacheFile

\* one run of each process, their steps in any order; what a failing request
\* or a kill does to a single run, and what a run finds after an earlier one,
\* is the subject of Spec, so here every step of the first process succeeds
\* and neither process starts a second run
ConcurrentNext ==
    \/ StartRun /\ outcome = "none" /\ UNCHANGED <<pullVars, extractVars, other>>
    \/ (\E id \in StatsIds : Backfill(id)) /\ failure' = "none"
          /\ UNCHANGED <<pullVars, extractVars, other>>
    \/ ListPosted /\ failure' = "none" /\ UNCHANGED <<pullVars, extractVars, other>>
    \/ (\E id \in InformalIds : ProcessNew(id)) /\ failure' = "none"
          /\ UNCHANGED <<pullVars, extractVars, other>>
    \/ WriteCache /\ UNCHANGED <<pullVars, extractVars, other>>
    \/ WriteCsv /\ UNCHANGED <<pullVars, extractVars, other>>
    \/ OtherLoad /\ other.outcome = "none" /\ UNCHANGED <<otherFrame, pullVars, extractVars>>
    \/ OtherProcess /\ UNCHANGED <<otherFrame, pullVars, extractVars>>
    \/ OtherWriteCache /\ UNCHANGED <<otherFrame, pullVars, extractVars>>
    \/ OtherWriteCsv /\ UNCHANGED <<otherFrame, pullVars, extractVars>>

\* no files yet, and every posted match resolving to an OpenDota match of its own
ConcurrentInit ==
    /\ Init
    /\ odOf = [id \in InformalIds |-> IF id \in StatsIds THEN id ELSE 0]

ConcurrentSpec == ConcurrentInit /\ [][ConcurrentNext]_vars

RunParked ==
    /\ RunInit
    /\ odOf = [i \in InformalIds |-> 0]

PullerSpecInit == RunParked /\ PullerInit /\ ExtractInit /\ OtherInit

PullerNext ==
    \/ (\E p \in Pullers : Pull(p)) /\ UNCHANGED <<runVars, extractVars, other>>
    \/ Tick /\ UNCHANGED <<runVars, extractVars, other>>

PullerSpec == PullerSpecInit /\ [][PullerNext]_vars

(***************************************************************************)
(* desired_fields alone: applied to a record drawn from MatchRecords.      *)
(***************************************************************************)
ExtractSpecInit ==
    /\ RunParked
    /\ PullerInit
    /\ match \in MatchRecords
    /\ row = <<>>
    /\ OtherInit

\* row = desired_fields(match)
Extract ==
    /\ row = <<>>
    /\ row' = desired_fields(match)
    /\ UNCHANGED match

ExtractNext == Extract /\ UNCHANGED <<runVars, pullVars, other>>

ExtractSpec == ExtractSpecInit /\ [][ExtractNext]_vars

(***************************************************************************)
(* Properties.                                                             *)
(***************************************************************************)
Done == pc = "idle" /\ outcome = "ok"

pairings_of(file) == load_pairings(file)
data_rows_of(file) == IF file.exists THEN Tail(file.content) ELSE <<>>
row_ids_of(file) == {int(data_rows_of(file)[i][1]) : i \in 1..Len(data_rows_of(file))}
FilesAsBefore == cacheFile = preCache /\ csvFile = preCsv

\* C1: a run that ends ok right after a run that ended ok, with the same
\* listing (mapping and records never change), leaves both files identical
\* to what the first run left.
C1_Idempotence == (Done /\ repeat) => FilesAsBefore

C1_Witness ==
    /\ Done /\ repeat
    /\ Len(pairings_of(cacheFile)) >= 2
    /\ Len(data_rows_of(csvFile)) >= 1

Unique(f) == \A a, b \in DOMAIN f : (a # b /\ f[a] # 0) => f[a] # f[b]

\* C2: from empty files, when no two ld2l ids map to the same non-zero
\* OpenDota id, no two rows of the table file share a match id, whatever
\* runs (ended ok, raised or killed) came before.
C2_RowUniqueness ==
    Unique(odOf) =>
        \A i, j \in 1..Len(data_rows_of(csvFile)) :
            i # j => int(data_rows_of(csvFile)[i][1]) # int(data_rows_of(csvFile)[j][1])

C2_Witness ==
    /\ Unique(odOf)
    /\ Len(data_rows_of(csvFile)) >= 2
    /\ "missing data" \in printed
    /\ Done

\* C3: no request to OpenDota is for id 0 and no row has match id 0; a run
\* whose cached and new pairings all have value 0 requests nothing from
\* OpenDota and leaves the rows of the table as they were.
C3_Sentinel ==
    /\ \A i \in 1..Len(odRequests) : odRequests[i] # 0
    /\ 0 \notin row_ids_of(csvFile)
    /\ \A i \in 1..Len(known_match_data) :
          known_match_data[i].tuple # <<>> => known_match_data[i].tuple[1] # 0
    /\ (Done /\ cached_od_ids_of(pairings_of(cacheFile)) = {0}) =>
          (odRequests = <<>> /\ data_rows_of(csvFile) = data_rows_of(preCsv))

C3_Witness ==
    /\ Done
    /\ cached_od_ids_of(pairings_of(preCache)) = {0}
    /\ Len(pairings_of(cacheFile)) > Len(pairings_of(preCache))
    /\ 0 \in cached_od_ids_of(SubSeq(pairings_of(cacheFile),
                                     Len(pairings_of(preCache)) + 1,
                                     Len(pairings_of(cacheFile))))

\* C4: a run whose listing lacks a cached ld2l id does not get past the
\* assert: it ends with the assertion error and has written neither file.
C4_AppendOnlyCheck ==
    /\ (pc \in {"process", "persist", "write csv"} \/ Done) =>
          cached_ld2l_ids_of(pairings_of(preCache)) \subseteq currently_posted
    /\ failure = "assert" =>
          /\ ~(cached_ld2l_ids_of(pairings_of(preCache)) \subseteq currently_posted)
          /\ pc = "idle" /\ outcome = "raised"
          /\ wrote = {} /\ FilesAsBefore

C4_Witness ==
    /\ failure = "assert"
    /\ Len(data_rows_of(preCsv)) >= 1
    /\ currently_posted # {}

\* C5: until the loops of the run are over nothing is written, and a run
\* that a failed fetch, scan, mapping or extraction ends has written nothing:
\* both files are as they were when it started.
C5_SingleWritePoint ==
    /\ pc \in {"backfill", "process", "persist"} => (wrote = {} /\ FilesAsBefore)
    /\ pc = "write csv" =>
          (cached_but_no_data = {} /\ new_ld2l_ids = {} /\ csvFile = preCsv)
    /\ failure \in {"fetch", "scan", "map", "extract"} =>
          /\ pc = "idle" /\ outcome = "raised"
          /\ wrote = {} /\ FilesAsBefore

C5_Witness ==
    /\ failure = "extract"
    /\ Len(odRequests) >= 2
    /\ Len(ld2lRequests) >= 2
    /\ preCsv.exists

\* C6: two consecutive requests of one puller are issued at least its
\* interval apart, also when requests raise and the caller goes on.
C6_RateLimit ==
    \A p \in Pullers : lastGap[p] = -1 \/ lastGap[p] >= duration[p]

RECURSIVE total(_, _, _, _)
\* the sum of `stat` over the players with a slot in lo..hi
total(players, lo, hi, stat) ==
    IF players = <<>> THEN 0
    ELSE (IF Head(players).player_slot \in lo..hi THEN Head(players)[stat] ELSE 0)
         + total(Tail(players), lo, hi, stat)

column(name) == CHOOSE i \in 1..Len(HEADER) : HEADER[i] = name

\* C7: in the row of a record whose slots are in 0..255, the five totals
\* after the radiant team id are the sums over the players with slot 0..127,
\* the five after the dire team id the sums over those with slot 128..255,
\* and every player is counted in exactly one of the two.
C7_SlotPartition ==
    row # <<>> =>
        \A i \in 1..5 :
            /\ row[2 + i] = total(match.players, 0, 127, STATS[i])
            /\ row[8 + i] = total(match.players, 128, 255, STATS[i])
            /\ row[2 + i] + row[8 + i] = total(match.players, 0, 255, STATS[i])

C7_Witness ==
    /\ row # <<>>
    /\ Len(match.players) = 2
    /\ match.players[1].player_slot = 127
    /\ match.players[2].player_slot = 128
    /\ row[3] > 0 /\ row[9] > 0

\* C8: the value under each name of the header is what the name says: the
\* match id, the team ids, and per team the sums of kills, deaths, assists,
\* xp_per_min (xpm) and gold_per_min (gpm).
C8_RowLayout ==
    row # <<>> =>
        /\ Len(row) = Len(HEADER)
        /\ row[column("match_id")] = match.match_id
        /\ row[column("radiant_team_id")] = match.radiant_team_id
        /\ row[column("dire_team_id")] = match.dire_team_id
        /\ row[column("r_kills")] = total(match.players, 0, 127, "kills")
        /\ row[column("r_deaths")] = total(match.players, 0, 127, "deaths")
        /\ row[column("r_assists")] = total(match.players, 0, 127, "assists")
        /\ row[column("r_xpm")] = total(match.players, 0, 127, "xp_per_min")
        /\ row[column("r_gpm")] = total(match.players, 0, 127, "gold_per_min")
        /\ row[column("d_kills")] = total(match.players, 128, 255, "kills")
        /\ row[column("d_deaths")] = total(match.players, 128, 255, "deaths")
        /\ row[column("d_assists")] = total(match.players, 128, 255, "assists")
        /\ row[column("d_xpm")] = total(match.players, 128, 255, "xp_per_min")
        /\ row[column("d_gpm")] = total(match.players, 128, 255, "gold_per_min")

NoNewData == "no new matches" \in printed /\ "missing data" \notin printed

\* C9 as stated: a run with no new match and no backfill ends ok and has
\* written neither file.
C9_NoWrite == (Done /\ NoNewData) => wrote = {}

\* C9 amended: a run with no new match and no backfill does not raise, and
\* when it ends it has written both files with what it loaded: the same
\* pairings and the same rows under the header (no pairing and no row when
\* the file did not exist).
C9_RewritesSame ==
    /\ ("no new matches" \in printed /\ pc = "idle") => failure \in {"none", "killed"}
    /\ (Done /\ NoNewData) =>
          /\ wrote = {"cache", "csv"}
          /\ cacheFile = File(pairings_of(preCache))
          /\ csvFile = File(<<HEADER>> \o data_rows_of(preCsv))

C9_Witness ==
    /\ Done /\ NoNewData
    /\ Len(data_rows_of(preCsv)) >= 1
    /\ Len(pairings_of(preCache)) >= 2

\* C10: after a run that ended ok every non-zero OpenDota id among the
\* values of the cache file has a row in the table file.
C10_BackfillRestores ==
    Done => (cached_od_ids_of(pairings_of(cacheFile)) \ {0}) \subseteq row_ids_of(csvFile)

C10_Witness ==
    /\ Done
    /\ "missing data" \in printed
    /\ ~((cached_od_ids_of(pairings_of(preCache)) \ {0}) \subseteq row_ids_of(preCsv))
    /\ Len(odRequests) >= 2


keys_of(pairings) == [i \in 1..Len(pairings) |-> pairings[i][1]]
Distinct(seq) == \A i, j \in 1..Len(seq) : i # j => seq[i] # seq[j]
IsPrefix(a, b) == Len(a) <= Len(b) /\ SubSeq(b, 1, Len(a)) = a

\* C11: after a run that ended ok the keys of the cache file are exactly the
\* ld2l ids of the listing that run saw, each of them once.
C11_PairingCompleteness ==
    Done =>
        /\ cached_ld2l_ids_of(pairings_of(cacheFile)) = currently_posted
        /\ Distinct(keys_of(pairings_of(cacheFile)))
        /\ Len(pairings_of(cacheFile)) = Cardinality(currently_posted)

C11_Witness ==
    /\ Done
    /\ Cardinality(currently_posted) >= 2
    /\ Len(pairings_of(preCache)) = 1

\* C12: no step removes or changes a pairing of the cache file: the pairings
\* it held stay, in their place and with their value, and the pairings added
\* have keys it did not hold.
C12_CacheMonotone ==
    [][/\ IsPrefix(pairings_of(cacheFile), pairings_of(cacheFile'))
       /\ Distinct(keys_of(pairings_of(cacheFile')))]_vars

C12_Witness ==
    /\ Done
    /\ Len(pairings_of(preCache)) >= 1
    /\ Len(pairings_of(cacheFile)) > Len(pairings_of(preCache))

\* C13: no step removes, changes or reorders a row of the table file: the
\* rows it held are a prefix of the rows it holds afterwards.
C13_TableAppendOnly ==
    [][IsPrefix(data_rows_of(csvFile), data_rows_of(csvFile'))]_vars

C13_Witness ==
    /\ Done
    /\ Len(data_rows_of(preCsv)) >= 1
    /\ Len(data_rows_of(csvFile)) > Len(data_rows_of(preCsv))
    /\ "missing data" \in printed


\* C14: when a call of pull ends, whether its request returned or raised,
\* prev_pull of that puller is the time at which it ended.
C14_RecordsAfterCall ==
    [][\A p \in Pullers :
          (pulls' = pulls + 1 /\ lastCall'.puller = p) => prev_pull'[p] = clock']_vars

\* C15 as stated: a failed extraction does not end the run, which goes on
\* with the matches that remain.
C15_SkipsAndContinues ==
    failure = "extract" => (pc \in {"backfill", "process", "persist", "write csv"} \/ Done)

\* C15 amended: a failed extraction ends the run there: the exception leaves
\* update_data_for_season, nothing is printed about a skipped match, the
\* matches that remain are not processed and neither file is written.
C15_ExtractFailureAborts ==
    failure = "extract" =>
        /\ pc = "idle" /\ outcome = "raised"
        /\ odRequests # <<>>
        /\ printed \subseteq {"missing data", "data not in cache"}
        /\ wrote = {} /\ FilesAsBefore

C15_Witness ==
    /\ failure = "extract"
    /\ Cardinality(currently_posted) >= 2
    /\ Len(ld2lRequests) = 2
    /\ Len(odRequests) = 1
    /\ pairings_of(preCache) = <<>>

match_requests == SelectSeq(ld2lRequests, LAMBDA r : r.page = "match")
new_ids_of_run == currently_posted \ cached_ld2l_ids_of(pairings_of(preCache))

\* C16 as stated: no OpenDota id is requested twice in one run.
C16_OncePerRun == Distinct(odRequests)

\* C16 amended: a run requests the match page of no cached ld2l id and of a
\* new ld2l id at most once, of each new id exactly once when it ends ok; it
\* requests from OpenDota no id that has a row in the table it loaded; and,
\* provided no two ld2l ids map to the same non-zero OpenDota id, it requests
\* no OpenDota id twice.
C16_RequestMinimality ==
    /\ Distinct(match_requests)
    /\ \A i \in 1..Len(match_requests) : match_requests[i].id \in new_ids_of_run
    /\ Done => {match_requests[i].id : i \in 1..Len(match_requests)} = new_ids_of_run
    /\ \A i \in 1..Len(odRequests) : odRequests[i] \notin row_ids_of(preCsv)
    /\ Unique(odOf) => Distinct(odRequests)

C16_Witness ==
    /\ Done
    /\ Len(match_requests) >= 1
    /\ Len(pairings_of(preCache)) >= 1
    /\ odRequests = <<>>
    /\ \E i \in 1..Len(match_requests) : odOf[match_requests[i].id] \in row_ids_of(preCsv)

rows_with(file, id) ==
    {i \in 1..Len(data_rows_of(file)) : int(data_rows_of(file)[i][1]) = id}
missing_at_start == (cached_od_ids_of(pairings_of(preCache)) \ {0}) \ row_ids_of(preCsv)

\* C18 as stated: after a run killed between the two writes, the next run
\* that ends ok leaves exactly one row for every non-zero cached id.
C18_ExactlyOneRow ==
    (Done /\ "missing data" \in printed) =>
        \A id \in cached_od_ids_of(pairings_of(cacheFile)) \ {0} :
            Cardinality(rows_with(csvFile, id)) = 1

\* C18 amended: a run killed between the two writes has written the cache
\* and left the table as it was; the next run that ends ok requests the ids
\* that have a pairing and no row, and when it ends every non-zero cached id
\* has a row, exactly one provided no two ld2l ids map to the same non-zero
\* OpenDota id.
C18_KillRecoverable ==
    /\ failure = "killed" =>
          /\ wrote = {"cache"} /\ csvFile = preCsv
          /\ IsPrefix(pairings_of(preCache), pairings_of(cacheFile))
    /\ (pc \in {"process", "persist", "write csv"} \/ Done) =>
          missing_at_start \subseteq {odRequests[i] : i \in 1..Len(odRequests)}
    /\ (Done /\ "missing data" \in printed) =>
          \A id \in cached_od_ids_of(pairings_of(cacheFile)) \ {0} :
              /\ Cardinality(rows_with(csvFile, id)) >= 1
              /\ Unique(odOf) => Cardinality(rows_with(csvFile, id)) = 1

C18_Witness ==
    /\ Done
    /\ "missing data" \in printed
    /\ Cardinality(missing_at_start) >= 2
    /\ Len(odRequests) >= 2

\* C19: the two pullers have the intervals 15 and 1; a call of pull on one
\* leaves prev_pull of the other as it was, and its request is issued when
\* its own interval since its own prev_pull is over (or at once), whatever
\* the other puller did.
C19_PacingIndependent ==
    [][\A p \in Pullers :
          (pulls' = pulls + 1 /\ lastCall'.puller = p) =>
              /\ duration = [q \in Pullers |-> IF q = "ld2l" THEN 15 ELSE 1]
              /\ \A q \in Pullers \ {p} : prev_pull'[q] = prev_pull[q]
              /\ LET due == IF clock < prev_pull[p] + duration[p]
                            THEN prev_pull[p] + duration[p] ELSE clock
                 IN  lastIssue'[p] \in due..(due + MaxOversleep)]_vars

C19_Witness ==
    /\ pulls = 2
    /\ lastIssue["ld2l"] >= 0
    /\ lastIssue["od"] >= 0
    /\ prev_pull["ld2l"] > 0
    /\ prev_pull["od"] > prev_pull["ld2l"]


orphans_at_start == row_ids_of(preCsv) \ cached_od_ids_of(pairings_of(preCache))

\* C17: a run that loads a table with rows whose id no cached pairing has
\* prints the warning and nothing more comes of it: it requests none of these
\* ids from OpenDota, writes the loaded rows back first and unchanged, adds
\* no second row for them, and adds pairings for the new ld2l ids of the
\* listing only, also when one of them maps to such an id.
C17_OrphansLeftAlone ==
    /\ ld2lRequests # <<>> =>
          ("data not in cache" \in printed <=> orphans_at_start # {})
    /\ \A i \in 1..Len(odRequests) : odRequests[i] \notin orphans_at_start
    /\ IsPrefix(data_rows_of(preCsv), data_rows_of(csvFile))
    /\ \A id \in orphans_at_start :
          Cardinality(rows_with(csvFile, id)) = Cardinality(rows_with(preCsv, id))
    /\ Done =>
          /\ Len(pairings_of(cacheFile)) =
                Len(pairings_of(preCache)) + Cardinality(new_ids_of_run)
          /\ \A i \in 1..Len(pairings_of(cacheFile)) :
                /\ int(pairings_of(cacheFile)[i][1]) \in currently_posted
                /\ pairings_of(cacheFile)[i][2] = odOf[int(pairings_of(cacheFile)[i][1])]

C17_Witness ==
    /\ Done
    /\ orphans_at_start # {}
    /\ Len(pairings_of(preCache)) >= 1
    /\ Len(pairings_of(cacheFile)) > Len(pairings_of(preCache))
    /\ pairings_of(cacheFile)[Len(pairings_of(cacheFile))][2] \in orphans_at_start
    /\ odRequests = <<>>


\* C20: nothing keeps two runs on the same season and table path apart: while
\* one run is anywhere between its load and the end of its writes, the other
\* may load the same files, and while one has loaded, the other may write them.
C20_NoMutualExclusion ==
    /\ (pc # "idle" /\ other.pc = "idle") => ENABLED OtherLoad
    /\ (other.pc # "idle" /\ pc = "idle") => ENABLED StartRun
    /\ (pc = "persist" /\ other.pc \in {"loaded", "persist", "write csv"}) =>
          ENABLED WriteCache
    /\ (other.pc = "persist" /\ pc \notin {"idle"}) => ENABLED OtherWriteCache

\* both runs returned normally and the files hold a table row without a
\* pairing and have lost a pairing one of the runs wrote
C20_Witness ==
    /\ Done
    /\ other.pc = "idle"
    /\ other.outcome = "ok"
    /\ row_ids_of(csvFile) \ cached_od_ids_of(pairings_of(cacheFile)) # {}
    /\ Cardinality(currently_posted) > Len(pairings_of(cacheFile))

====
